---- MODULE Spec2Model ----
(***************************************************************************)
(* Model of cycle_loader: the Manager of src/manager.rs (registry, forward *)
(* and reverse adjacency lists, pre-run validation, the select_all loop    *)
(* under tokio::time::timeout) and the tracing ledger of                   *)
(* src/tracing_info.rs.                                                    *)
(***************************************************************************)
EXTENDS Naturals, Sequences, FiniteSets

\* ------------------------------------------------------------------ bounds
MaxEdges == 3
NumInstances == 2
MaxTime == 1
MaxBatch == 2
MaxLedgerTime == 2

\* Identities (&'static str) that the build calls may name.
Names == {"a", "b", "c"}
DiamondNames == {"a", "b", "c", "d"}
DiamondEdges == {<<"a", "b">>, <<"a", "c">>, <<"b", "d">>, <<"c", "d">>}
AllNames == Names \cup DiamondNames
Instances == 1..NumInstances
Times == 1..MaxTime
LedgerTimes == 1..MaxLedgerTime

VARIABLES
    exectors,            \* Manager.exectors: name -> boxed instance
    adjacency_list,      \* Manager.adjacency_list: name -> Vec of names
    rev_adjacency_list,  \* Manager.rev_adjacency_list: name -> Vec of names
    tracing_infos,       \* Manager._tracing.tracing_infos: name -> TracingInfo
    handles,             \* run_inner: the JoinHandles the loop still holds
    all_ready_exector_names, \* run_inner: names whose handle has been taken
    task,                \* the tokio tasks: name -> "running" | "ok" | "err" | "join_err"
    spawn_count,         \* history: how often build_handle was called per name
    pc,                  \* "build" | "waiting" | "returned" | "panicked"
    result,              \* value returned by run, "none" until it returns
    panic                \* the panic that ended the program, kind "none" if none

vars == <<exectors, adjacency_list, rev_adjacency_list, tracing_infos, handles,
          all_ready_exector_names, task, spawn_count, pc, result, panic>>

\* ------------------------------------------------------------ map helpers
MapInsert(m, k, v) == [x \in (DOMAIN m) \cup {k} |-> IF x = k THEN v ELSE m[x]]

MapRemove(m, k) == [x \in (DOMAIN m) \ {k} |-> m[x]]

EmptyMap == [x \in {} |-> 0]

Contains(seq, x) == \E i \in 1..Len(seq) : seq[i] = x

\* Every enumeration order of a set (the iteration order of an AHashMap).
Orders(S) == {s \in [1..Cardinality(S) -> S] : \A i, j \in 1..Cardinality(S) : s[i] = s[j] => i = j}

NoPanic == [kind |-> "none", name |-> "none"]

\* ---------------------------------------------------------- tracing ledger
TracingInfoNew == [status |-> "NotStarted", start_time |-> 0, end_time |-> 0]

TracingInfoStart(info, now) ==
    IF info.status = "NotStarted"
    THEN [info EXCEPT !.status = "Doing", !.start_time = now]
    ELSE info

\* A done that does not look at the status.
TracingInfoDoneAnyStatus(info, now) == [info EXCEPT !.status = "Done", !.end_time = now]

TracingInfoDone(info, now) ==
    IF info.status = "Doing"
    THEN [info EXCEPT !.status = "Done", !.end_time = now]
    ELSE info

TracingStart(infos, key, now) ==
    IF key \in DOMAIN infos
    THEN [infos EXCEPT ![key] = TracingInfoStart(infos[key], now)]
    ELSE infos

TracingDone(infos, key, now) ==
    IF key \in DOMAIN infos
    THEN [infos EXCEPT ![key] = TracingInfoDone(infos[key], now)]
    ELSE infos

\* ------------------------------------------------------------ construction
Init ==
    /\ exectors = EmptyMap
    /\ adjacency_list = EmptyMap
    /\ rev_adjacency_list = EmptyMap
    /\ tracing_infos = EmptyMap
    /\ handles = {}
    /\ all_ready_exector_names = {}
    /\ task = EmptyMap
    /\ spawn_count = [n \in AllNames |-> 0]
    /\ pc = "build"
    /\ result = "none"
    /\ panic = NoPanic

RunVarsUnchanged ==
    UNCHANGED <<tracing_infos, handles, all_ready_exector_names, task, spawn_count, result>>

\* Number of declared edges.
RECURSIVE SumLen(_, _)
SumLen(m, S) ==
    IF S = {} THEN 0
    ELSE LET k == CHOOSE x \in S : TRUE IN Len(m[k]) + SumLen(m, S \ {k})

EdgeCount(adj) == SumLen(adj, DOMAIN adj)

\* A registration that replaces the instance held under a repeated name.
AddExectorOverwrite(name, inst) ==
    /\ pc = "build"
    /\ exectors' = MapInsert(exectors, name, inst)
    /\ UNCHANGED <<pc, panic, adjacency_list, rev_adjacency_list>>
    /\ RunVarsUnchanged

\* add_exector: panics on a repeated name, else inserts.
add_exector(name, inst) ==
    /\ pc = "build"
    /\ IF name \in DOMAIN exectors
       THEN /\ pc' = "panicked"
            /\ panic' = [kind |-> "name_repeat", name |-> name]
            /\ UNCHANGED exectors
       ELSE /\ exectors' = MapInsert(exectors, name, inst)
            /\ UNCHANGED <<pc, panic>>
    /\ UNCHANGED <<adjacency_list, rev_adjacency_list>>
    /\ RunVarsUnchanged

\* An add_edge that pushes to the forward list without looking for the edge.
AddEdgeAdjNoCheck(adj, from, to) ==
    MapInsert(adj, from, IF from \in DOMAIN adj THEN Append(adj[from], to) ELSE <<to>>)

\* An add_edge that pushes to the reverse list even when the edge is known.
AddEdgeRevAlways(adj, rev, from, to) ==
    MapInsert(rev, to, IF to \in DOMAIN rev THEN Append(rev[to], from) ELSE <<from>>)

\* The two lists after add_edge(from, to).
AddEdgeAdj(adj, from, to) ==
    IF from \in DOMAIN adj /\ Contains(adj[from], to)
    THEN adj
    ELSE MapInsert(adj, from, IF from \in DOMAIN adj THEN Append(adj[from], to) ELSE <<to>>)

AddEdgeRev(adj, rev, from, to) ==
    IF from \in DOMAIN adj /\ Contains(adj[from], to)
    THEN rev
    ELSE MapInsert(rev, to, IF to \in DOMAIN rev THEN Append(rev[to], from) ELSE <<from>>)

add_edge(from, to) ==
    /\ pc = "build"
    /\ adjacency_list' = AddEdgeAdj(adjacency_list, from, to)
    /\ rev_adjacency_list' = AddEdgeRev(adjacency_list, rev_adjacency_list, from, to)
    /\ UNCHANGED <<exectors, pc, panic>>
    /\ RunVarsUnchanged

add_dep(name, dep) == add_edge(dep, name)

\* add_edges / add_deps: add_edge per element, in list order.
RECURSIVE AddEdgesAdj(_, _, _, _)
AddEdgesAdj(adj, from, to_list, i) ==
    IF i > Len(to_list) THEN adj
    ELSE AddEdgesAdj(AddEdgeAdj(adj, from, to_list[i]), from, to_list, i + 1)

RECURSIVE AddEdgesRev(_, _, _, _, _)
AddEdgesRev(adj, rev, from, to_list, i) ==
    IF i > Len(to_list) THEN rev
    ELSE AddEdgesRev(AddEdgeAdj(adj, from, to_list[i]),
                     AddEdgeRev(adj, rev, from, to_list[i]), from, to_list, i + 1)

RECURSIVE AddDepsAdj(_, _, _, _)
AddDepsAdj(adj, name, deps, i) ==
    IF i > Len(deps) THEN adj
    ELSE AddDepsAdj(AddEdgeAdj(adj, deps[i], name), name, deps, i + 1)

RECURSIVE AddDepsRev(_, _, _, _, _)
AddDepsRev(adj, rev, name, deps, i) ==
    IF i > Len(deps) THEN rev
    ELSE AddDepsRev(AddEdgeAdj(adj, deps[i], name),
                    AddEdgeRev(adj, rev, deps[i], name), name, deps, i + 1)

add_edges(from, to_list) ==
    /\ pc = "build"
    /\ adjacency_list' = AddEdgesAdj(adjacency_list, from, to_list, 1)
    /\ rev_adjacency_list' = AddEdgesRev(adjacency_list, rev_adjacency_list, from, to_list, 1)
    /\ UNCHANGED <<exectors, pc, panic>>
    /\ RunVarsUnchanged

add_deps(name, deps) ==
    /\ pc = "build"
    /\ adjacency_list' = AddDepsAdj(adjacency_list, name, deps, 1)
    /\ rev_adjacency_list' = AddDepsRev(adjacency_list, rev_adjacency_list, name, deps, 1)
    /\ UNCHANGED <<exectors, pc, panic>>
    /\ RunVarsUnchanged

\* -------------------------------------------------------------- validation
\* A start-node search that ignores the reverse map.
FindStartNodesAll(ex, rev) == DOMAIN ex

\* find_start_nodes: the registered names without an entry in the reverse map.
find_start_nodes(ex, rev) == {name \in DOMAIN ex : name \notin DOMAIN rev}

\* visited.get(n).cloned().unwrap_or(false)
Visited(visited, n) == IF n \in DOMAIN visited THEN visited[n] ELSE FALSE

\* A neighbor loop that pushes every neighbor without looking at its marker.
RECURSIVE PushNeighborsNoCheck(_, _, _, _)
PushNeighborsNoCheck(neighbors, i, stack, visited) ==
    IF i > Len(neighbors) THEN [err |-> FALSE, stack |-> stack, visited |-> visited]
    ELSE PushNeighborsNoCheck(neighbors, i + 1, Append(stack, neighbors[i]),
                              MapInsert(visited, neighbors[i], FALSE))

\* The for loop over the neighbors of a popped node (lines 174-185).
RECURSIVE PushNeighbors(_, _, _, _)
PushNeighbors(neighbors, i, stack, visited) ==
    IF i > Len(neighbors) THEN [err |-> FALSE, stack |-> stack, visited |-> visited]
    ELSE IF Visited(visited, neighbors[i])
         THEN [err |-> TRUE, stack |-> stack, visited |-> visited]
         ELSE PushNeighbors(neighbors, i + 1, Append(stack, neighbors[i]),
                            MapInsert(visited, neighbors[i], FALSE))

\* The while loop popping the stack (lines 172-189): TRUE iff it returns the cycle error.
RECURSIVE FindCycle(_, _, _)
FindCycle(adj, stack, visited) ==
    IF stack = <<>> THEN FALSE
    ELSE LET node == stack[Len(stack)]
             rest == SubSeq(stack, 1, Len(stack) - 1)
             r == IF node \in DOMAIN adj
                  THEN PushNeighbors(adj[node], 1, rest, visited)
                  ELSE [err |-> FALSE, stack |-> rest, visited |-> visited]
         IN IF r.err THEN TRUE
            ELSE FindCycle(adj, r.stack, MapInsert(r.visited, node, TRUE))

\* The same while loop, counting its iterations and giving up after limit of
\* them: ended tells whether the loop came to its end (stack empty or error
\* returned), err whether it returned the error, pops how many nodes it
\* popped, repush whether it pushed a node already marked visited.
RECURSIVE Traverse(_, _, _, _, _)
Traverse(adj, stack, visited, pops, limit) ==
    IF stack = <<>>
    THEN [ended |-> TRUE, err |-> FALSE, pops |-> pops, repush |-> FALSE]
    ELSE IF pops >= limit
    THEN [ended |-> FALSE, err |-> FALSE, pops |-> pops, repush |-> FALSE]
    ELSE LET node == stack[Len(stack)]
             rest == SubSeq(stack, 1, Len(stack) - 1)
             r == IF node \in DOMAIN adj
                  THEN PushNeighbors(adj[node], 1, rest, visited)
                  ELSE [err |-> FALSE, stack |-> rest, visited |-> visited]
             pushed == SubSeq(r.stack, Len(rest) + 1, Len(r.stack))
         IN IF \E i \in 1..Len(pushed) : Visited(visited, pushed[i])
            THEN [ended |-> TRUE, err |-> r.err, pops |-> pops + 1, repush |-> TRUE]
            ELSE IF r.err
            THEN [ended |-> TRUE, err |-> TRUE, pops |-> pops + 1, repush |-> FALSE]
            ELSE Traverse(adj, r.stack, MapInsert(r.visited, node, TRUE), pops + 1, limit)

\* A validation without the cycle check.
PreCheckNoCycleCheck(adj, start_nodes) ==
    IF start_nodes = <<>> THEN "no_start_nodes" ELSE "none"

\* A validation without the test for an empty start-node list.
PreCheckNoEmptyTest(adj, start_nodes) ==
    IF FindCycle(adj, start_nodes, [n \in {start_nodes[i] : i \in 1..Len(start_nodes)} |-> FALSE])
    THEN "find_cycle"
    ELSE "none"

\* pre_check_and_find_start_nodes, start_nodes being find_start_nodes in the
\* order the hash map iterated: "none" for Ok(start_nodes), else the error.
pre_check_and_find_start_nodes(adj, start_nodes) ==
    IF start_nodes = <<>> THEN "no_start_nodes"
    ELSE IF FindCycle(adj, start_nodes, [n \in {start_nodes[i] : i \in 1..Len(start_nodes)} |-> FALSE])
         THEN "find_cycle"
         ELSE "none"

\* --------------------------------------------------------------------- run
\* A run start that spawns the start nodes whatever the validation said.
StartExectorsAlways(err, start_nodes) == start_nodes

\* The names handed to the spawn closure at run start: line 112 returns the
\* validation error with `?` before line 114 maps over the start nodes.
StartExectors(err, start_nodes) == IF err = "none" THEN start_nodes ELSE <<>>

\* A ready set that only takes the tasks that returned Ok.
ReadyAfterOkOnly(ready, name, state) == IF state = "ok" THEN ready \cup {name} ELSE ready

\* all_ready_exector_names after a joined handle was matched (lines 128-135):
\* the Ok arm and the Err arm both yield the name, which is inserted.
ReadyAfter(ready, name, state) == ready \cup {name}

\* An Err arm that propagates the task's error to the caller of run.
TaskErrorResultFailFast(state) == IF state = "err" THEN "task_error" ELSE "none"

\* What the Err arm makes run_inner return: it only logs (lines 130-133).
TaskErrorResult(state) == "none"

\* A release test that is satisfied by any one ready prerequisite.
DepsReadyAny(rev, next, ready) == \E i \in 1..Len(rev[next]) : rev[next][i] \in ready

\* A release test that looks at the first prerequisite only.
DepsReadyFirst(rev, next, ready) == rev[next][1] \in ready

\* next_exector_deps.iter().all(|dep| all_ready_exector_names.contains(dep))
DepsReady(rev, next, ready) == \A i \in 1..Len(rev[next]) : rev[next][i] \in ready

\* A dependent loop that skips a dependent missing from the registry.
RECURSIVE ReleaseDependentsSkipMissing(_, _, _, _, _, _)
ReleaseDependentsSkipMissing(nexts, i, rev, ready, now, st) ==
    IF i > Len(nexts) THEN st
    ELSE LET next == nexts[i] IN
         IF next \in DOMAIN rev /\ DepsReady(rev, next, ready) /\ next \in DOMAIN st.exectors
         THEN ReleaseDependentsSkipMissing(nexts, i + 1, rev, ready, now,
                  [st EXCEPT !.exectors = MapRemove(st.exectors, next),
                             !.tracing = TracingStart(st.tracing, next, now),
                             !.spawned = Append(st.spawned, next)])
         ELSE ReleaseDependentsSkipMissing(nexts, i + 1, rev, ready, now, st)

\* The loop over the dependents of the finished task (lines 139-149), in list
\* order, on st = [exectors, tracing, spawned, panic]: each released dependent
\* is removed from the registry (the unwrap panics if it is not there), its
\* record started, and its handle built.
RECURSIVE ReleaseDependents(_, _, _, _, _, _)
ReleaseDependents(nexts, i, rev, ready, now, st) ==
    IF i > Len(nexts) \/ st.panic.kind # "none" THEN st
    ELSE LET next == nexts[i] IN
         IF next \in DOMAIN rev /\ DepsReady(rev, next, ready)
         THEN IF next \in DOMAIN st.exectors
              THEN ReleaseDependents(nexts, i + 1, rev, ready, now,
                       [st EXCEPT !.exectors = MapRemove(st.exectors, next),
                                  !.tracing = TracingStart(st.tracing, next, now),
                                  !.spawned = Append(st.spawned, next)])
              ELSE [st EXCEPT !.panic = [kind |-> "unwrap_none", name |-> next]]
         ELSE ReleaseDependents(nexts, i + 1, rev, ready, now, st)

\* The closure of lines 114-118 over the start nodes.
RECURSIVE SpawnStartNodes(_, _, _, _)
SpawnStartNodes(names, i, now, st) ==
    IF i > Len(names) \/ st.panic.kind # "none" THEN st
    ELSE IF names[i] \in DOMAIN st.exectors
         THEN SpawnStartNodes(names, i + 1, now,
                  [st EXCEPT !.exectors = MapRemove(st.exectors, names[i]),
                             !.tracing = TracingStart(st.tracing, names[i], now),
                             !.spawned = Append(st.spawned, names[i])])
         ELSE [st EXCEPT !.panic = [kind |-> "unwrap_none", name |-> names[i]]]

SeqToSet(seq) == {seq[i] : i \in 1..Len(seq)}

CountIn(seq, x) == Cardinality({i \in 1..Len(seq) : seq[i] = x})

\* build_handle for every name of spawned: a tokio task starts running.
build_handle(tasks, spawned) ==
    [n \in (DOMAIN tasks) \cup SeqToSet(spawned) |->
        IF n \in SeqToSet(spawned) THEN "running" ELSE tasks[n]]

\* A loop that goes back to select_all whatever is left in flight.
AdvanceNeverExits(st, remain, early) ==
    /\ exectors' = st.exectors
    /\ tracing_infos' = st.tracing
    /\ task' = build_handle(task, st.spawned)
    /\ spawn_count' = [n \in AllNames |-> spawn_count[n] + CountIn(st.spawned, n)]
    /\ handles' = remain \cup SeqToSet(st.spawned)
    /\ panic' = st.panic
    /\ IF st.panic.kind # "none"
       THEN pc' = "panicked" /\ result' = "none"
       ELSE IF early # "none"
            THEN pc' = "returned" /\ result' = early
            ELSE pc' = "waiting" /\ result' = "none"

\* The effect of one synchronous stretch of run_inner on the Manager, the
\* in-flight handles and the program position; remain are the handles kept,
\* early the error run_inner returns with ("none": it goes on to the loop test).
Advance(st, remain, early) ==
    /\ exectors' = st.exectors
    /\ tracing_infos' = st.tracing
    /\ task' = build_handle(task, st.spawned)
    /\ spawn_count' = [n \in AllNames |-> spawn_count[n] + CountIn(st.spawned, n)]
    /\ handles' = remain \cup SeqToSet(st.spawned)
    /\ panic' = st.panic
    /\ IF st.panic.kind # "none"
       THEN pc' = "panicked" /\ result' = "none"
       ELSE IF early # "none"
            THEN pc' = "returned" /\ result' = early
            ELSE IF handles' = {}
                 THEN pc' = "returned" /\ result' = "ok"
                 ELSE pc' = "waiting" /\ result' = "none"

\* run, first poll: validation, then the start nodes are spawned and the loop
\* reaches select_all (or returns at once).
run(start_nodes, now) ==
    /\ pc = "build"
    /\ start_nodes \in Orders(find_start_nodes(exectors, rev_adjacency_list))
    /\ LET err == pre_check_and_find_start_nodes(adjacency_list, start_nodes)
           st == SpawnStartNodes(StartExectors(err, start_nodes), 1, now,
                     [exectors |-> exectors, tracing |-> tracing_infos,
                      spawned |-> <<>>, panic |-> NoPanic])
       IN Advance(st, {}, err)
    /\ all_ready_exector_names' = {}
    /\ UNCHANGED <<adjacency_list, rev_adjacency_list>>

\* A spawned task completes: execute (or the wrapper) returns Ok or Err, or
\* the task panics and its handle will yield a JoinError.
task_complete(name, outcome) ==
    /\ name \in DOMAIN task
    /\ task[name] = "running"
    /\ task' = [task EXCEPT ![name] = outcome]
    /\ UNCHANGED <<exectors, adjacency_list, rev_adjacency_list, tracing_infos, handles,
                   all_ready_exector_names, spawn_count, pc, result, panic>>

\* One iteration of the while loop: select_all yields a completed handle.
select_all(name, now) ==
    /\ pc = "waiting"
    /\ name \in handles
    /\ task[name] # "running"
    /\ UNCHANGED <<adjacency_list, rev_adjacency_list>>
    /\ IF task[name] = "join_err"
       THEN /\ pc' = "panicked"
            /\ panic' = [kind |-> "join_error", name |-> name]
            /\ UNCHANGED <<exectors, tracing_infos, handles, all_ready_exector_names,
                           task, spawn_count, result>>
       ELSE LET ready == ReadyAfter(all_ready_exector_names, name, task[name])
                nexts == IF name \in DOMAIN adjacency_list THEN adjacency_list[name] ELSE <<>>
                st == ReleaseDependents(nexts, 1, rev_adjacency_list, ready, now,
                          [exectors |-> exectors,
                           tracing |-> TracingDone(tracing_infos, name, now),
                           spawned |-> <<>>, panic |-> NoPanic])
            IN /\ all_ready_exector_names' = ready
               /\ Advance(st, handles \ {name}, TaskErrorResult(task[name]))

\* A deadline that only records the timeout and leaves the loop running.
TimeoutLoopGoesOn ==
    /\ pc = "waiting"
    /\ result = "none"
    /\ result' = "timeout"
    /\ UNCHANGED <<exectors, adjacency_list, rev_adjacency_list, tracing_infos, handles,
                   all_ready_exector_names, task, spawn_count, panic, pc>>

\* tokio::time::timeout: the deadline elapses while run_inner is pending in
\* select_all; run returns the Elapsed error, the spawned tasks stay detached.
timeout ==
    /\ pc = "waiting"
    /\ pc' = "returned"
    /\ result' = "timeout"
    /\ UNCHANGED <<exectors, adjacency_list, rev_adjacency_list, tracing_infos, handles,
                   all_ready_exector_names, task, spawn_count, panic>>

\* ----------------------------------------------------------- specification
Lists(S, n) == UNION {[1..k -> S] : k \in 1..n}

\* The build calls stop declaring edges at MaxEdges edges.
EdgesWithinBound == EdgeCount(adjacency_list') <= MaxEdges

AddExector == \E name \in Names, inst \in Instances : add_exector(name, inst)

AddEdge == \E from \in Names, to \in Names : add_edge(from, to) /\ EdgesWithinBound

AddDep == \E name \in Names, dep \in Names : add_dep(name, dep) /\ EdgesWithinBound

AddEdges == \E from \in Names, to_list \in Lists(Names, MaxBatch) :
                add_edges(from, to_list) /\ EdgesWithinBound

AddDeps == \E name \in Names, deps \in Lists(Names, MaxBatch) :
               add_deps(name, deps) /\ EdgesWithinBound

Run == \E start_nodes \in Orders(find_start_nodes(exectors, rev_adjacency_list)), now \in Times :
           run(start_nodes, now)

TaskComplete == \E name \in AllNames, outcome \in {"ok", "err", "join_err"} : task_complete(name, outcome)

SelectAll == \E name \in AllNames, now \in Times : select_all(name, now)

Timeout == timeout

Next ==
    \/ AddExector
    \/ AddEdge
    \/ AddDep
    \/ Run
    \/ TaskComplete
    \/ SelectAll
    \/ Timeout

Spec == Init /\ [][Next]_vars

\* The build phase alone, with the batch calls. Which instance a name is
\* registered with plays no part in the graph, so one instance is registered.
AddExectorBuild == \E name \in Names : add_exector(name, 1)

NextBuild ==
    \/ AddExectorBuild
    \/ AddEdge
    \/ AddDep
    \/ AddEdges
    \/ AddDeps

SpecBuild == Init /\ [][NextBuild]_vars

\* The build phase with the single-edge calls only.
NextSingle ==
    \/ AddExectorBuild
    \/ AddEdge
    \/ AddDep

SpecSingle == Init /\ [][NextSingle]_vars

\* A run in which every spawned task returns Ok or Err and the deadline does
\* not elapse: the runtime keeps polling the spawned tasks and the loop.
TaskReturns == \E name \in AllNames, outcome \in {"ok", "err"} : task_complete(name, outcome)

NextLive ==
    \/ AddExector
    \/ AddEdge
    \/ AddDep
    \/ Run
    \/ TaskReturns
    \/ SelectAll

SpecLive == Init /\ [][NextLive]_vars /\ WF_vars(TaskReturns) /\ WF_vars(SelectAll)

\* The ledger on its own: TracingInfoManager::new, then any calls of
\* add_tracing_info, start and done.
LedgerFrame ==
    UNCHANGED <<exectors, adjacency_list, rev_adjacency_list, handles,
                all_ready_exector_names, task, spawn_count, pc, result, panic>>

add_tracing_info(key) ==
    /\ tracing_infos' = MapInsert(tracing_infos, key, TracingInfoNew)
    /\ LedgerFrame

tracing_start(key, now) ==
    /\ tracing_infos' = TracingStart(tracing_infos, key, now)
    /\ LedgerFrame

tracing_done(key, now) ==
    /\ tracing_infos' = TracingDone(tracing_infos, key, now)
    /\ LedgerFrame

LedgerAdd == \E key \in Names : add_tracing_info(key)

LedgerStart == \E key \in Names, now \in LedgerTimes : tracing_start(key, now)

LedgerDone == \E key \in Names, now \in LedgerTimes : tracing_done(key, now)

NextLedger ==
    \/ LedgerAdd
    \/ LedgerStart
    \/ LedgerDone

SpecLedger == Init /\ [][NextLedger]_vars

\* The diamond scenario: the build calls register tasks a, b, c, d and declare
\* edges of the diamond only, in any order; run may be called at any point.
AddExectorDiamond == \E name \in DiamondNames, inst \in Instances : add_exector(name, inst)

AddEdgeDiamond == \E e \in DiamondEdges : add_edge(e[1], e[2])

AddDepDiamond == \E e \in DiamondEdges : add_dep(e[2], e[1])

NextDiamond ==
    \/ AddExectorDiamond
    \/ AddEdgeDiamond
    \/ AddDepDiamond
    \/ Run
    \/ TaskComplete
    \/ SelectAll
    \/ Timeout

SpecDiamond == Init /\ [][NextDiamond]_vars

\* ------------------------------------------------------------------ claims
\* The direct prerequisites of n: its reverse adjacency list.
Prereqs(n) ==
    IF n \in DOMAIN rev_adjacency_list THEN SeqToSet(rev_adjacency_list[n]) ELSE {}

\* A step in which build_handle is called for n.
Spawns(n) == spawn_count'[n] > spawn_count[n]

\* C1: a task is spawned only in a step at which every one of its direct
\* prerequisites has completed (Ok or Err) and is in the ready set.
C1_SpawnOnlyAfterPrereqsReady ==
    [][\A n \in AllNames : Spawns(n) =>
          \A dep \in Prereqs(n) :
              /\ dep \in all_ready_exector_names'
              /\ dep \in DOMAIN task
              /\ task[dep] \in {"ok", "err"}]_vars

\* A task with two prerequisites is running.
C1_Witness ==
    \E n \in DOMAIN task : Cardinality(Prereqs(n)) = 2 /\ task[n] = "running"

\* C3: build_handle is called at most once per name, and the scheduler never
\* tries to remove a task that has already left the registry: the unwrap of
\* line 143 only ever fails for a name that was never spawned.
C3_StartedAtMostOnce ==
    /\ \A n \in AllNames : spawn_count[n] <= 1
    /\ \A n \in AllNames : spawn_count[n] = 1 <=> n \in DOMAIN task
    /\ \A n \in DOMAIN task : n \notin DOMAIN exectors
    /\ panic.kind = "unwrap_none" => panic.name \notin DOMAIN task

\* run returned Ok after a task with two prerequisites and both of these ran.
C3_Witness ==
    /\ pc = "returned" /\ result = "ok"
    /\ \E n \in DOMAIN task :
          /\ Cardinality(Prereqs(n)) = 2
          /\ Prereqs(n) \subseteq DOMAIN task
          /\ n \in all_ready_exector_names

\* The declared edges, and reachability over them.
EdgeSet(adj) == UNION {{<<from, adj[from][i]>> : i \in 1..Len(adj[from])} : from \in DOMAIN adj}

RECURSIVE ReachFrom(_, _)
ReachFrom(adj, S) ==
    LET T == S \cup {e[2] : e \in {x \in EdgeSet(adj) : x[1] \in S}}
    IN IF T = S THEN S ELSE ReachFrom(adj, T)

Successors(adj, n) == {e[2] : e \in {x \in EdgeSet(adj) : x[1] = n}}

OnCycle(adj, n) == n \in ReachFrom(adj, Successors(adj, n))

HasCycle(adj) == \E n \in AllNames : OnCycle(adj, n)

\* The registered tasks without declared prerequisite.
StartSet == {n \in DOMAIN exectors : n \notin DOMAIN rev_adjacency_list}

\* Some cycle can be reached over forward edges from a start node.
CycleReachableFromStart ==
    \E n \in ReachFrom(adjacency_list, StartSet) : OnCycle(adjacency_list, n)

\* The tasks registered when run was called: those still in the registry and
\* those that left it for a spawned task.
Registered == (DOMAIN exectors) \cup (DOMAIN task)

\* A step that is a call of run.
RunStep == pc = "build" /\ pc' \in {"waiting", "returned"}

\* C2: on an acyclic graph with a start node, when run returns Ok every
\* registered task has a tracing record that went NotStarted -> Doing -> Done:
\* its status is Done and both timestamps are set.
C2_AllRecordsDoneOnSuccess ==
    (pc = "returned" /\ result = "ok" /\ ~HasCycle(adjacency_list)) =>
        \A n \in Registered :
            /\ n \in DOMAIN tracing_infos
            /\ tracing_infos[n].status = "Done"
            /\ tracing_infos[n].start_time > 0
            /\ tracing_infos[n].end_time > 0

\* C4: when run returns Ok, every registered task was executed and entered
\* the ready set exactly once, and none is left in the registry.
C4_AllExecutedOnSuccess ==
    (pc = "returned" /\ result = "ok") =>
        /\ DOMAIN exectors = {}
        /\ \A n \in Registered : spawn_count[n] = 1 /\ n \in all_ready_exector_names

\* C5: a task u that completed with Err and whose handle the loop has taken
\* is in the ready set, and every task d whose only prerequisite is u has been
\* spawned (unless removing a never-registered dependent crashed the loop);
\* such a d is spawned only once u is in the ready set.
C5_FailedTaskReleasesDependents ==
    /\ \A u \in DOMAIN task : (task[u] = "err" /\ u \notin handles) =>
          /\ u \in all_ready_exector_names
          /\ \A d \in AllNames :
                (Prereqs(d) = {u} /\ panic.kind # "unwrap_none") => d \in DOMAIN task
    /\ \A d \in DOMAIN task : \A u \in AllNames :
          Prereqs(d) = {u} => (u \in all_ready_exector_names /\ task[u] \in {"ok", "err"})

\* u failed, and d, which depends only on u, started and finished.
C5_Witness ==
    \E u \in DOMAIN task, d \in DOMAIN task :
        /\ task[u] = "err"
        /\ Prereqs(d) = {u}
        /\ task[d] \in {"ok", "err"}
        /\ d \in all_ready_exector_names

\* C6: run returns a failed result exactly when validation failed or the
\* deadline elapsed: a step in which run returns is a timeout step, a run call
\* rejected by the validation, or returns Ok, whatever the tasks returned.
C6_ResultOnlyValidationOrDeadline ==
    [][(pc # "returned" /\ pc' = "returned") =>
          /\ (result' # "ok") <=>
                \/ (pc = "waiting" /\ result' = "timeout" /\ handles # {})
                \/ (pc = "build" /\ result' \in {"no_start_nodes", "find_cycle"}
                      /\ \E o \in Orders(StartSet) :
                            pre_check_and_find_start_nodes(adjacency_list, o) = result')
          /\ (result' = "ok" /\ pc = "build") =>
                \E o \in Orders(StartSet) :
                    pre_check_and_find_start_nodes(adjacency_list, o) = "none"
          /\ (result' = "ok") => handles' = {}]_vars

\* Chain x -> y with x failing: run returned Ok.
C6_Witness ==
    /\ pc = "returned" /\ result = "ok"
    /\ \E x \in DOMAIN task, y \in DOMAIN task :
          /\ task[x] = "err"
          /\ Prereqs(y) = {x}
          /\ Prereqs(x) = {}

\* The whole diamond has been built: a, b, c, d registered, its four edges declared.
DiamondBuilt ==
    /\ Registered = DiamondNames
    /\ EdgeSet(adjacency_list) = DiamondEdges

\* C7: on the diamond, run passes validation (it does not return a validation
\* error), d is spawned only once b and c are both in the ready set, and when
\* run returns without timeout all four tasks have run to completion.
C7_DiamondRuns ==
    DiamondBuilt =>
        /\ result \notin {"no_start_nodes", "find_cycle"}
        /\ "d" \in DOMAIN task => {"b", "c"} \subseteq all_ready_exector_names
        /\ (pc = "returned" /\ result # "timeout") =>
              (result = "ok" /\ all_ready_exector_names = DiamondNames)

\* C8: a call of run on a graph with a cycle reachable from a start node
\* returns the cycle error and spawns nothing: the registry, the tasks and the
\* ledger are as before.
C8_ReachableCycleRejected ==
    [][(RunStep /\ CycleReachableFromStart) =>
          /\ pc' = "returned"
          /\ result' = "find_cycle"
          /\ UNCHANGED <<exectors, task, spawn_count, handles, tracing_infos>>]_vars

\* run returned the cycle error on a graph with a reachable cycle.
C8_Witness ==
    /\ pc = "returned" /\ result = "find_cycle"
    /\ CycleReachableFromStart
    /\ task = EmptyMap

\* C9: a call of run when every registered task has an entry in the reverse
\* map returns the "no start nodes" error; nothing is spawned and no record
\* enters Doing.
C9_NoStartNodesRejected ==
    [][(RunStep /\ \A n \in DOMAIN exectors : n \in DOMAIN rev_adjacency_list) =>
          /\ pc' = "returned"
          /\ result' = "no_start_nodes"
          /\ UNCHANGED <<exectors, task, spawn_count, handles>>
          /\ \A n \in DOMAIN tracing_infos' : tracing_infos'[n].status # "Doing"]_vars

\* run returned "no start nodes" with tasks registered, all with a prerequisite.
C9_Witness ==
    /\ pc = "returned" /\ result = "no_start_nodes"
    /\ DOMAIN exectors # {}
    /\ \A n \in DOMAIN exectors : n \in DOMAIN rev_adjacency_list

\* C10: a call of run that returns a validation error leaves the registry,
\* both adjacency maps and the ledger unchanged, and spawns nothing.
C10_ValidationErrorNoSideEffect ==
    [][(RunStep /\ result' \in {"no_start_nodes", "find_cycle"}) =>
          /\ UNCHANGED <<exectors, adjacency_list, rev_adjacency_list, tracing_infos>>
          /\ UNCHANGED <<task, spawn_count, handles>>]_vars

\* run returned a validation error with at least two tasks in the registry,
\* one of them a start node.
C10_Witness ==
    /\ pc = "returned" /\ result \in {"no_start_nodes", "find_cycle"}
    /\ Cardinality(DOMAIN exectors) >= 2
    /\ StartSet # {}
    /\ task = EmptyMap

\* C11: the deadline elapses only while handles are in flight and makes run
\* return the timeout error without touching the spawned tasks; after that
\* the tasks may still complete, but the ready set, the registry, the handles
\* and the set of spawned tasks never change again: the completions are
\* discarded and release nothing.
C11_TimeoutDiscardsCompletions ==
    [][/\ (result # "timeout" /\ result' = "timeout") =>
              (pc = "waiting" /\ pc' = "returned" /\ handles # {} /\ task' = task)
       /\ (result = "timeout") =>
              /\ pc' = "returned" /\ result' = "timeout"
              /\ UNCHANGED <<all_ready_exector_names, exectors, handles, spawn_count,
                             tracing_infos>>
              /\ DOMAIN task' = DOMAIN task
              /\ \A n \in DOMAIN task : task[n] # "running" => task'[n] = task[n]]_vars

\* After the timeout a task completed whose handle was never taken, and a
\* task that depends only on it is still in the registry.
C11_Witness ==
    /\ pc = "returned" /\ result = "timeout"
    /\ \E n \in handles, d \in DOMAIN exectors :
          /\ task[n] \in {"ok", "err"}
          /\ n \notin all_ready_exector_names
          /\ Prereqs(d) = {n}

\* C12: registering a name that is already in the registry panics in the
\* build phase, before any run, and leaves the registry as it was; an
\* instance in the registry is never replaced by another one.
C12_DuplicateRegistrationRejected ==
    [][/\ \A n \in DOMAIN exectors :
              n \in DOMAIN exectors' => exectors'[n] = exectors[n]
       /\ (pc = "build" /\ pc' = "build") => DOMAIN exectors \subseteq DOMAIN exectors'
       /\ (panic'.kind = "name_repeat" /\ panic.kind = "none") =>
              /\ pc = "build" /\ pc' = "panicked"
              /\ panic'.name \in DOMAIN exectors
              /\ exectors' = exectors
              /\ task' = EmptyMap /\ result' = "none"
       /\ pc = "panicked" => pc' = "panicked"]_vars

\* A second registration under a name was rejected; two tasks are registered.
C12_Witness ==
    /\ pc = "panicked" /\ panic.kind = "name_repeat"
    /\ panic.name \in DOMAIN exectors
    /\ Cardinality(DOMAIN exectors) = 2
    /\ task = EmptyMap

\* x occurs in the list kept under k.
InList(m, k, x) == k \in DOMAIN m /\ Contains(m[k], x)

NoDuplicates(seq) == \A i, j \in 1..Len(seq) : seq[i] = seq[j] => i = j

\* C13: after any sequence of add_edge, add_edges, add_dep and add_deps the
\* two maps mirror each other, and no list holds an identity twice.
C13_ForwardReverseMirror ==
    /\ \A from \in AllNames, to \in AllNames :
          InList(adjacency_list, from, to) <=> InList(rev_adjacency_list, to, from)
    /\ \A k \in DOMAIN adjacency_list : NoDuplicates(adjacency_list[k])
    /\ \A k \in DOMAIN rev_adjacency_list : NoDuplicates(rev_adjacency_list[k])

\* Some task has two dependents and some task two prerequisites.
C13_Witness ==
    /\ \E k \in DOMAIN adjacency_list : Len(adjacency_list[k]) = 2
    /\ \E k \in DOMAIN rev_adjacency_list : Len(rev_adjacency_list[k]) = 2

\* C14: after a step add_edge(from, to), a second add_edge(from, to) changes
\* neither map; and a step add_dep(name, dep) leaves the maps add_edge(dep,
\* name) leaves.
C14_AddEdgeIdempotent ==
    [][\A x \in Names, y \in Names :
          /\ add_edge(x, y) =>
                /\ AddEdgeAdj(adjacency_list', x, y) = adjacency_list'
                /\ AddEdgeRev(adjacency_list', rev_adjacency_list', x, y) = rev_adjacency_list'
                /\ InList(adjacency_list', x, y) /\ InList(rev_adjacency_list', y, x)
          /\ add_dep(x, y) =>
                /\ adjacency_list' = AddEdgeAdj(adjacency_list, y, x)
                /\ rev_adjacency_list' = AddEdgeRev(adjacency_list, rev_adjacency_list, y, x)
                /\ InList(adjacency_list', y, x)]_vars

\* Three edges are declared, among them a self-loop.
C14_Witness ==
    /\ EdgeCount(adjacency_list) = 3
    /\ \E k \in DOMAIN adjacency_list : InList(adjacency_list, k, k)

\* The permutations of a list.
Permutations(seq) ==
    {p \in [1..Len(seq) -> SeqToSet(seq)] :
        \E f \in Orders(1..Len(seq)) : \A i \in 1..Len(seq) : p[i] = seq[f[i]]}

\* The verdicts validation can reach on a registry and a graph, over the
\* enumeration orders of the start nodes.
Verdicts(ex, adj, rev) ==
    {pre_check_and_find_start_nodes(adj, o) : o \in Orders(find_start_nodes(ex, rev))}

\* C15: for every list passed to add_edges or add_deps and every permutation
\* of it, the same edges are declared and a run called next gets the same
\* validation verdict.
C15_BatchOrderIrrelevant ==
    pc = "build" =>
        \A x \in Names, l \in Lists(Names, MaxBatch) : \A p \in Permutations(l) :
            /\ EdgeSet(AddEdgesAdj(adjacency_list, x, l, 1))
                 = EdgeSet(AddEdgesAdj(adjacency_list, x, p, 1))
            /\ Verdicts(exectors, AddEdgesAdj(adjacency_list, x, l, 1),
                        AddEdgesRev(adjacency_list, rev_adjacency_list, x, l, 1))
                 = Verdicts(exectors, AddEdgesAdj(adjacency_list, x, p, 1),
                            AddEdgesRev(adjacency_list, rev_adjacency_list, x, p, 1))
            /\ EdgeSet(AddDepsAdj(adjacency_list, x, l, 1))
                 = EdgeSet(AddDepsAdj(adjacency_list, x, p, 1))
            /\ Verdicts(exectors, AddDepsAdj(adjacency_list, x, l, 1),
                        AddDepsRev(adjacency_list, rev_adjacency_list, x, l, 1))
                 = Verdicts(exectors, AddDepsAdj(adjacency_list, x, p, 1),
                            AddDepsRev(adjacency_list, rev_adjacency_list, x, p, 1))

\* How a record may differ after a call of start or done: not at all, or
\* NotStarted -> Doing with a start time, or Doing -> Done with an end time.
RecordStep(old, new) ==
    \/ new = old
    \/ /\ old.status = "NotStarted" /\ new.status = "Doing"
       /\ new.start_time \in LedgerTimes /\ new.end_time = old.end_time
    \/ /\ old.status = "Doing" /\ new.status = "Done"
       /\ new.end_time \in LedgerTimes /\ new.start_time = old.start_time

\* C16: a call of start(key) or done(key) creates and removes no record and
\* changes at most the record of key; start changes it only from NotStarted
\* (to Doing), done only from Doing (to Done); every other call leaves status
\* and timestamps of every record as they were, and nothing is raised.
C16_LedgerTransitions ==
    [][\A key \in Names, now \in LedgerTimes :
          /\ (tracing_start(key, now) \/ tracing_done(key, now)) =>
                /\ DOMAIN tracing_infos' = DOMAIN tracing_infos
                /\ \A k \in DOMAIN tracing_infos :
                      /\ RecordStep(tracing_infos[k], tracing_infos'[k])
                      /\ k # key => tracing_infos'[k] = tracing_infos[k]
                /\ panic' = panic /\ pc' = pc /\ result' = result
          /\ tracing_start(key, now) =>
                \A k \in DOMAIN tracing_infos :
                    tracing_infos[k].status # "NotStarted" => tracing_infos'[k] = tracing_infos[k]
          /\ tracing_done(key, now) =>
                \A k \in DOMAIN tracing_infos :
                    tracing_infos[k].status # "Doing" => tracing_infos'[k] = tracing_infos[k]]_vars

\* One record went all the way to Done, another is Doing, a third identity
\* has no record.
C16_Witness ==
    /\ \E k \in DOMAIN tracing_infos :
          /\ tracing_infos[k].status = "Done"
          /\ tracing_infos[k].start_time = 1 /\ tracing_infos[k].end_time = 2
    /\ \E k \in DOMAIN tracing_infos : tracing_infos[k].status = "Doing"
    /\ \E k \in Names : k \notin DOMAIN tracing_infos

\* C17: once every prerequisite of an identity that has declared
\* prerequisites but was never registered is in the ready set, the loop has
\* panicked on the failed removal and run has returned nothing.
C17_UnregisteredDependentPanics ==
    \A d \in DOMAIN rev_adjacency_list :
        (d \notin Registered /\ Prereqs(d) \subseteq all_ready_exector_names) =>
            /\ pc = "panicked"
            /\ panic.kind = "unwrap_none"
            /\ panic.name \notin Registered
            /\ result = "none"

\* The loop panicked on a never-registered identity with two prerequisites,
\* both of them ready.
C17_Witness ==
    /\ pc = "panicked" /\ panic.kind = "unwrap_none"
    /\ panic.name \notin Registered
    /\ Cardinality(Prereqs(panic.name)) = 2
    /\ Prereqs(panic.name) \subseteq all_ready_exector_names

\* A registered task that can never be released: one of its prerequisites
\* was never registered, or it lies on a cycle.
Stuck(n) ==
    /\ n \in Registered
    /\ \/ \E p \in Prereqs(n) : p \notin Registered
       \/ OnCycle(adjacency_list, n)

\* C18: a registered task with a never-registered prerequisite, or on a
\* cycle, is never spawned: it stays in the registry, also when run returns
\* Ok, and no panic of the loop names it.
C18_StuckTaskSilentlySkipped ==
    \A n \in AllNames : Stuck(n) =>
        /\ n \in DOMAIN exectors
        /\ n \notin DOMAIN task
        /\ spawn_count[n] = 0
        /\ panic.kind \in {"unwrap_none", "join_error"} => panic.name # n

\* run returned Ok although a task with an unregistered prerequisite and a
\* task on a cycle are still in the registry.
C18_Witness ==
    /\ pc = "returned" /\ result = "ok"
    /\ \E n \in DOMAIN exectors : \E p \in Prereqs(n) : p \notin Registered
    /\ \E n \in DOMAIN exectors : OnCycle(adjacency_list, n)
    /\ task # EmptyMap

\* Every endpoint of a declared edge is a registered task.
EndpointsRegistered ==
    \A e \in EdgeSet(adjacency_list) : e[1] \in Registered /\ e[2] \in Registered

\* C19: while the loop waits in select_all some handle is in flight and no
\* task whose prerequisites are all ready is left in the registry; and when
\* all edge endpoints are registered, tasks return and the deadline does not
\* elapse, a waiting loop leads to run returning Ok with nothing in flight.
C19_LoopTerminates ==
    /\ [](pc = "waiting" =>
            /\ handles # {}
            /\ \A n \in DOMAIN exectors : ~(Prereqs(n) \subseteq all_ready_exector_names))
    /\ (pc = "waiting" /\ EndpointsRegistered)
          ~> (pc = "returned" /\ result = "ok" /\ handles = {})

\* run returned Ok after three tasks ran, every edge endpoint registered.
C19_Witness ==
    /\ pc = "returned" /\ result = "ok"
    /\ EndpointsRegistered
    /\ EdgeCount(adjacency_list) >= 2
    /\ Cardinality(DOMAIN task) = 3
    /\ DOMAIN task = all_ready_exector_names

\* The traversal from the start nodes in order o, cut off after as many pops
\* as there are start nodes and edges.
CheckRun(o) ==
    Traverse(adjacency_list, o, [n \in SeqToSet(o) |-> FALSE], 0,
             Len(o) + EdgeCount(adjacency_list))

\* C20: on every graph and for every enumeration order of the start nodes the
\* traversal comes to its end within (start nodes + edges) pops, with the
\* verdict of the cycle check, and never pushes a node marked visited.
C20_CycleCheckTerminates ==
    \A o \in Orders(StartSet) :
        /\ CheckRun(o).ended
        /\ ~CheckRun(o).repush
        /\ CheckRun(o).err <=>
              FindCycle(adjacency_list, o, [n \in SeqToSet(o) |-> FALSE])

\* A traversal that accepts the graph after popping some node twice.
C20_Witness ==
    \E o \in Orders(StartSet) :
        /\ CheckRun(o).ended /\ ~CheckRun(o).err
        /\ CheckRun(o).pops > Cardinality(ReachFrom(adjacency_list, StartSet))

====
